---- MODULE Spec2Model ----
(***************************************************************************)
(* The streaming session coordinator of the Author backend: the WebSocket  *)
(* read loop of backend/main.py (websocket_endpoint) and the snapshot      *)
(* differencer of backend/services/agent_service.py (stream_response).     *)
(*                                                                         *)
(* One connection is modelled.  The client puts frames into the transport  *)
(* (inbox); the endpoint coroutine takes one frame at a time, handles it   *)
(* and writes events to the transport (wire).  A "message" frame starts a  *)
(* turn: the generator stream_response steps the external snapshot source, *)
(* turns each full-state snapshot into events and the endpoint writes each *)
(* yielded event before the generator is resumed.                          *)
(***************************************************************************)
EXTENDS Integers, Sequences, FiniteSets, TLC

\* ------------------------------------------------------------------ bounds
MaxLen == 2          \* longest message text, in characters
MaxSnapshots == 2    \* snapshots the source yields in one turn
MaxFrames == 3       \* frames the client sends over the connection
MaxInbox == 1        \* frames waiting in the transport, not yet received
MaxFramesTwo == 2    \* frames each client sends when two connections are open

\* ------------------------------------------------------------- text values
\* A Python str is a sequence of characters; s[n:] drops the first n.
Chars == {"a", "b"}

RECURSIVE StrOfLen(_)
StrOfLen(n) ==
    IF n = 0 THEN {<<>>}
    ELSE {Append(s, c) : s \in StrOfLen(n - 1), c \in Chars}

Str == UNION {StrOfLen(n) : n \in 0..MaxLen}

\* AIMessage.content that is not a str (a list of content blocks).
ListContent == <<"[blocks]">>

IsStr(c) == \A i \in 1..Len(c) : c[i] \in Chars

\* Python s[n:]
SliceFrom(s, n) == IF n >= Len(s) THEN <<>> ELSE SubSeq(s, n + 1, Len(s))

\* Python s.startswith(p)
StartsWith(s, p) == Len(p) <= Len(s) /\ SubSeq(s, 1, Len(p)) = p

\* ---------------------------------------------------------------- snapshots
ToolIds == {1, 2}
NoToolId == 0        \* a tool message whose tool_call_id is None

ToolCall(id) == [id |-> id, name |-> "write_real_file"]

HumanMsg == [kind |-> "human", content |-> <<>>, tool_calls |-> <<>>, tool_call_id |-> NoToolId]
AIMsg(c, tcs) == [kind |-> "ai", content |-> c, tool_calls |-> tcs, tool_call_id |-> NoToolId]
ToolMsg(id) == [kind |-> "tool", content |-> <<>>, tool_calls |-> <<>>, tool_call_id |-> id]

\* One value of the agent's state stream (stream_mode="values"): a dict whose
\* keys may or may not include "todos" and "files".
Chunk(msgs, keys, todos, files) ==
    [keys |-> keys \cup {"messages"}, messages |-> msgs, todos |-> todos, files |-> files]

TodoLists == {<<>>, <<1>>, <<1, 2>>, <<2, 1>>}
FileLists == {<<>>, <<1>>, <<1, 2>>, <<2, 1>>}

ContentSnaps ==
    {Chunk(<<HumanMsg, AIMsg(c, <<>>)>>, {}, <<>>, <<>>) : c \in Str \cup {ListContent}}

ToolSnaps ==
    { Chunk(<<HumanMsg, AIMsg(<<>>, <<ToolCall(1)>>)>>, {}, <<>>, <<>>),
      Chunk(<<HumanMsg, AIMsg(<<>>, <<ToolCall(1), ToolCall(2)>>)>>, {}, <<>>, <<>>),
      Chunk(<<HumanMsg, AIMsg(<<>>, <<ToolCall(1)>>), ToolMsg(1)>>, {}, <<>>, <<>>),
      Chunk(<<HumanMsg, AIMsg(<<>>, <<ToolCall(1)>>), ToolMsg(1), AIMsg(<<"a">>, <<>>)>>,
            {}, <<>>, <<>>),
      Chunk(<<HumanMsg, AIMsg(<<>>, <<ToolCall(2)>>), ToolMsg(NoToolId)>>, {}, <<>>, <<>>),
      \* a thread whose history already holds a tool message
      Chunk(<<ToolMsg(2), HumanMsg>>, {}, <<>>, <<>>) }

TodoSnaps == {Chunk(<<HumanMsg>>, {"todos"}, t, <<>>) : t \in TodoLists}

FileSnaps == {Chunk(<<HumanMsg>>, {"files"}, <<>>, f) : f \in FileLists}

MixedSnaps ==
    { Chunk(<<ToolMsg(2), AIMsg(<<"a", "b">>, <<ToolCall(1)>>)>>,
            {"todos", "files"}, <<1>>, <<1>>),
      \* a state without messages: chunk["messages"][-1] raises IndexError
      Chunk(<<>>, {}, <<>>, <<>>) }

\* What the source may yield when the turn itself is studied.
Snapshots == ContentSnaps \cup ToolSnaps \cup TodoSnaps \cup FileSnaps \cup MixedSnaps

\* What the source may yield when the whole session is studied.
SessionSnaps ==
    { Chunk(<<HumanMsg, AIMsg(<<"a">>, <<ToolCall(1)>>)>>, {"todos"}, <<1>>, <<>>),
      Chunk(<<HumanMsg, AIMsg(<<"a">>, <<ToolCall(1)>>), ToolMsg(1), AIMsg(<<"a", "b">>, <<>>)>>,
            {"todos", "files"}, <<1>>, <<1>>) }

\* ------------------------------------------------------------------- events
StreamStart == [type |-> "stream-start"]
StreamChunk(delta, full) ==
    [type |-> "stream-chunk", content |-> delta, fullContent |-> full, role |-> "assistant"]
ToolCallEvent(tc) == [type |-> "tool-call", tool |-> tc.name, id |-> tc.id, status |-> "pending"]
ToolResultEvent(id) == [type |-> "tool-result", id |-> id, status |-> "completed"]
TodosEvent(t) == [type |-> "todos", data |-> t]
FilesEvent(f) == [type |-> "files", data |-> f]
CompleteEvent(full) == [type |-> "complete", fullContent |-> full]
ErrorEvent(msg) == [type |-> "error", error |-> msg]

\* -------------------------------------------------------------- differencer
\* The locals of stream_response that remember what was already sent.
NewGen == [last_ai_content |-> <<>>, last_todos |-> <<>>, last_files |-> <<>>,
           current_tool_calls |-> <<>>]

\* Mutant of Delta: the whole running text is sent each time.
DeltaWhole(current_content, last_ai_content) == current_content

\* delta = current_content[len(last_ai_content):]
Delta(current_content, last_ai_content) == SliceFrom(current_content, Len(last_ai_content))

\* current_content = last_message.content if isinstance(..., str) else ""
CurrentContent(last_message) ==
    IF IsStr(last_message.content) THEN last_message.content ELSE <<>>

\* Mutant of ContentPart: a stream-chunk is sent whenever the text differs,
\* also with an empty delta.
ContentPartAlways(g, last_message) ==
    LET current_content == CurrentContent(last_message)
        delta == Delta(current_content, g.last_ai_content)
    IN  IF current_content # g.last_ai_content
        THEN [ev |-> <<StreamChunk(delta, current_content)>>,
              g  |-> [g EXCEPT !.last_ai_content = current_content]]
        ELSE [ev |-> <<>>, g |-> g]

\* Mutant of ContentPart: the text is recorded only when a delta was sent.
ContentPartLazy(g, last_message) ==
    LET current_content == CurrentContent(last_message)
        delta == Delta(current_content, g.last_ai_content)
    IN  IF current_content # g.last_ai_content /\ delta # <<>>
        THEN [ev |-> <<StreamChunk(delta, current_content)>>,
              g  |-> [g EXCEPT !.last_ai_content = current_content]]
        ELSE [ev |-> <<>>, g |-> g]

\* "Messages (streaming text with deltas)": the text part, for an AIMessage.
ContentPart(g, last_message) ==
    LET current_content == CurrentContent(last_message)
        delta == Delta(current_content, g.last_ai_content)
    IN  IF current_content # g.last_ai_content
        THEN [ev |-> IF delta # <<>> THEN <<StreamChunk(delta, current_content)>> ELSE <<>>,
              g  |-> [g EXCEPT !.last_ai_content = current_content]]
        ELSE [ev |-> <<>>, g |-> g]

\* Mutant of SeenIds: only the most recent tool call is remembered.
SeenIdsLastOnly(current_tool_calls) ==
    IF current_tool_calls = <<>> THEN {}
    ELSE {current_tool_calls[Len(current_tool_calls)].id}

\* [tc.get('id', '') for tc in current_tool_calls]
SeenIds(current_tool_calls) == {current_tool_calls[i].id : i \in 1..Len(current_tool_calls)}

\* "Check for tool calls in the message": one pending event per id not yet seen.
RECURSIVE ToolCallPart(_, _)
ToolCallPart(g, tool_calls) ==
    IF tool_calls = <<>> THEN [ev |-> <<>>, g |-> g]
    ELSE LET tc == Head(tool_calls)
             new == tc.id \notin SeenIds(g.current_tool_calls)
             g1 == IF new
                   THEN [g EXCEPT !.current_tool_calls = Append(@, tc)]
                   ELSE g
             rest == ToolCallPart(g1, Tail(tool_calls))
         IN  [ev |-> (IF new THEN <<ToolCallEvent(tc)>> ELSE <<>>) \o rest.ev,
              g  |-> rest.g]

\* if hasattr(msg, 'type') and msg.type == 'tool': ... if tool_call_id:
ReportsResult(msg) == msg.kind = "tool" /\ msg.tool_call_id # NoToolId

\* "Tool results": one completed event per tool message of the snapshot.
RECURSIVE ToolResultPart(_)
ToolResultPart(messages) ==
    IF messages = <<>> THEN <<>>
    ELSE (IF ReportsResult(Head(messages))
          THEN <<ToolResultEvent(Head(messages).tool_call_id)>>
          ELSE <<>>) \o ToolResultPart(Tail(messages))

\* Mutant of TodosChanged: the lists are compared by the items they hold,
\* whatever their order.
TodosChangedAsSet(current_todos, last_todos) ==
    {current_todos[i] : i \in 1..Len(current_todos)}
        # {last_todos[i] : i \in 1..Len(last_todos)}

\* current_todos != last_todos
TodosChanged(current_todos, last_todos) == current_todos # last_todos

TodosPart(g, chunk) ==
    IF "todos" \in chunk.keys /\ TodosChanged(chunk.todos, g.last_todos)
    THEN [ev |-> <<TodosEvent(chunk.todos)>>, g |-> [g EXCEPT !.last_todos = chunk.todos]]
    ELSE [ev |-> <<>>, g |-> g]

\* current_files != last_files, both lists of the dict's keys
FilesChanged(current_files, last_files) == current_files # last_files

FilesPart(g, chunk) ==
    IF "files" \in chunk.keys /\ FilesChanged(chunk.files, g.last_files)
    THEN [ev |-> <<FilesEvent(chunk.files)>>, g |-> [g EXCEPT !.last_files = chunk.files]]
    ELSE [ev |-> <<>>, g |-> g]

\* chunk["messages"][-1] of an empty list raises IndexError inside the try.
Raises(chunk) == chunk.messages = <<>>

\* Mutant of Differencer: todos and files are reported before the messages.
DifferencerStateFirst(g, chunk) ==
    LET last_message == chunk.messages[Len(chunk.messages)]
        c == IF last_message.kind = "ai" THEN ContentPart(g, last_message)
             ELSE [ev |-> <<>>, g |-> g]
        t == IF last_message.kind = "ai" THEN ToolCallPart(c.g, last_message.tool_calls)
             ELSE [ev |-> <<>>, g |-> c.g]
        r == ToolResultPart(chunk.messages)
        d == TodosPart(t.g, chunk)
        f == FilesPart(d.g, chunk)
    IN  [ev |-> d.ev \o f.ev \o c.ev \o t.ev \o r, g |-> f.g]

\* The body of the async for of stream_response, for one snapshot: the events
\* it yields, in order, and the locals afterwards.
Differencer(g, chunk) ==
    LET last_message == chunk.messages[Len(chunk.messages)]
        c == IF last_message.kind = "ai" THEN ContentPart(g, last_message)
             ELSE [ev |-> <<>>, g |-> g]
        t == IF last_message.kind = "ai" THEN ToolCallPart(c.g, last_message.tool_calls)
             ELSE [ev |-> <<>>, g |-> c.g]
        r == ToolResultPart(chunk.messages)
        d == TodosPart(t.g, chunk)
        f == FilesPart(d.g, chunk)
    IN  [ev |-> c.ev \o t.ev \o r \o d.ev \o f.ev, g |-> f.g]

\* ------------------------------------------------------------------ session
\* Frames of the wire protocol.  A key the client left out is Absent; busy is
\* a ghost field: the frame was sent while a turn was streaming.
Absent == "<absent>"

Frame(type, project_path, author_mode, content, mode) ==
    [type |-> type, project_path |-> project_path, author_mode |-> author_mode,
     content |-> content, mode |-> mode, busy |-> FALSE]

Frames ==
    { Frame("init", Absent, Absent, Absent, Absent),
      Frame("init", "/p1/.", Absent, Absent, Absent),
      Frame("init", "/p1/.", "poetry", Absent, Absent),
      Frame("message", Absent, Absent, "", Absent),
      Frame("message", Absent, Absent, "hi", Absent),
      Frame("change_project", Absent, Absent, Absent, Absent),
      Frame("change_project", "/p2", Absent, Absent, Absent),
      Frame("change_mode", Absent, Absent, Absent, Absent),
      Frame("change_mode", Absent, Absent, Absent, "non-fiction"),
      Frame("change_mode", Absent, Absent, Absent, "poetry"),
      Frame("get_mode", Absent, Absent, Absent, Absent),
      Frame("ping", Absent, Absent, Absent, Absent) }

\* dict.get(key, default)
Get(value, default) == IF value = Absent THEN default ELSE value

\* Python truthiness of an optional string: None and "" are false.
Truthy(value) == value # Absent /\ value # ""

\* Path(project_path).resolve()
Resolve(path) == IF path = "/p1/." THEN "/p1" ELSE path

\* list(MAIN_AGENT_TEMPLATES.keys())
AvailableModes == {"fiction", "non-fiction", "academic"}

\* MAIN_AGENT_TEMPLATES.get(mode, FICTION_MAIN_AGENT)
MainAgentPrompt(mode) == IF mode \in AvailableModes THEN mode ELSE "fiction"

\* The local agent_service of websocket_endpoint; bound is FALSE for None.
NoService == [bound |-> FALSE, project_path |-> "", author_mode |-> "",
              agent |-> [serial |-> 0, project_path |-> "", prompt |-> ""]]

VARIABLES
    conn,           \* the transport: "open", or "closed" once the client left
    inbox,          \* frames sent by the client and not yet received
    sent,           \* ghost: number of frames the client has sent
    asked,          \* ghost: number of "message" frames the client has sent
    pc,             \* websocket_endpoint: "recv" (awaiting receive_json),
                    \* "stream" (inside the async for), "done" (returned)
    agent_service,  \* the local agent_service
    built,          \* ghost: number of agents constructed so far
    gen,            \* locals of the running stream_response generator
    running,        \* the generator has not yet yielded its terminal event
    outq,           \* events yielded for the current snapshot, not yet written
    snaps,          \* ghost: the snapshots the source yielded in this turn
    wire,           \* events written to the client
    wireTurn,       \* ghost: for each written event, its turn (0: none)
    turnNo,         \* ghost: number of turns started
    lateWrites,     \* ghost: send_json calls made after a send had failed
    peer            \* the session of a second connection, whose coroutine is
                    \* not the one running

vars == <<conn, inbox, sent, asked, pc, agent_service, built, gen, running, outq, snaps,
          wire, wireTurn, turnNo, lateWrites, peer>>

turnVars == <<gen, running, outq, snaps, turnNo>>

\* self._initialize_agent(): the agent built from the service's fields.
InitializeAgent(svc, serial) ==
    [svc EXCEPT !.agent = [serial |-> serial, project_path |-> svc.project_path,
                           prompt |-> MainAgentPrompt(svc.author_mode)]]

\* Mutant of NewService: the agent of a project is built once, kept in the
\* module's dict and handed to every service of that project.
NewServiceShared(project_path, author_mode, serial) ==
    InitializeAgent([NoService EXCEPT !.bound = TRUE,
                                      !.project_path = Resolve(project_path),
                                      !.author_mode = author_mode], 1)

\* AgentService(project_path, author_mode=author_mode)
NewService(project_path, author_mode, serial) ==
    InitializeAgent([NoService EXCEPT !.bound = TRUE,
                                      !.project_path = Resolve(project_path),
                                      !.author_mode = author_mode], serial)

\* await websocket.send_json(event), outside a turn
Reply(event) ==
    /\ wire' = Append(wire, event)
    /\ wireTurn' = Append(wireTurn, 0)

\* Mutant of Receive: frames are read by a task of their own, also while a
\* turn is streaming.
ReceiveAnytime(type) ==
    /\ pc \in {"recv", "stream"}
    /\ conn = "open"
    /\ inbox # <<>>
    /\ Head(inbox).type = type
    /\ inbox' = Tail(inbox)

\* data = await websocket.receive_json(): the next frame is taken.
Receive(type) ==
    /\ pc = "recv"
    /\ conn = "open"
    /\ inbox # <<>>
    /\ Head(inbox).type = type
    /\ inbox' = Tail(inbox)

\* The locals of websocket_endpoint for a connection just accepted.
Accepted(id) ==
    [id |-> id, conn |-> "open", inbox |-> <<>>, sent |-> 0, asked |-> 0, pc |-> "recv",
     agent_service |-> NoService, gen |-> NewGen, running |-> FALSE, outq |-> <<>>,
     snaps |-> <<>>, wire |-> <<>>, wireTurn |-> <<>>, turnNo |-> 0, lateWrites |-> 0]

Init ==
    /\ peer = Accepted(2)
    /\ conn = "open"
    /\ inbox = <<>>
    /\ sent = 0
    /\ asked = 0
    /\ pc = "recv"
    /\ agent_service = NoService
    /\ built = 0
    /\ gen = NewGen
    /\ running = FALSE
    /\ outq = <<>>
    /\ snaps = <<>>
    /\ wire = <<>>
    /\ wireTurn = <<>>
    /\ turnNo = 0
    /\ lateWrites = 0

\* The client sends a frame; the transport holds it until it is received.
ClientSend(f) ==
    /\ conn = "open"
    /\ sent < MaxFrames
    /\ Len(inbox) < MaxInbox
    /\ inbox' = Append(inbox, [f EXCEPT !.busy = (pc = "stream")])
    /\ sent' = sent + 1
    /\ asked' = IF f.type = "message" THEN asked + 1 ELSE asked
    /\ UNCHANGED <<conn, pc, agent_service, built, wire, wireTurn, lateWrites>>
    /\ UNCHANGED turnVars
    /\ UNCHANGED peer

\* The client goes away.
ClientDisconnect ==
    /\ conn = "open"
    /\ conn' = "closed"
    /\ UNCHANGED <<inbox, sent, asked, pc, agent_service, built, wire, wireTurn, lateWrites>>
    /\ UNCHANGED turnVars
    /\ UNCHANGED peer

\* message_type == "init".  ok: the agent could be constructed.
HandleInit(ok) ==
    /\ Receive("init")
    /\ LET data == Head(inbox)
           author_mode == Get(data.author_mode, "fiction")
       IN  IF ~Truthy(data.project_path)
           THEN /\ Reply(ErrorEvent("project_path is required for initialization"))
                /\ UNCHANGED <<agent_service, built>>
           ELSE IF ok
           THEN /\ agent_service' = NewService(data.project_path, author_mode, built + 1)
                /\ built' = built + 1
                /\ Reply([type |-> "initialized", project_path |-> data.project_path,
                          author_mode |-> author_mode])
           ELSE /\ Reply(ErrorEvent("Failed to initialize agent"))
                /\ UNCHANGED <<agent_service, built>>
    /\ UNCHANGED <<conn, sent, asked, pc, lateWrites>>
    /\ UNCHANGED turnVars
    /\ UNCHANGED peer


\* await websocket.send_json(chunk), inside a turn
TurnWrite(event, turn) ==
    /\ wire' = Append(wire, event)
    /\ wireTurn' = Append(wireTurn, turn)

\* Mutant of HandleMessage: a message without content is dropped silently.
HandleMessageSilent ==
    /\ Receive("message")
    /\ LET data == Head(inbox)
           content == Get(data.content, "")
       IN  IF ~agent_service.bound
           THEN /\ Reply(ErrorEvent("Agent not initialized. Send 'init' first."))
                /\ UNCHANGED <<pc, gen, running, outq, snaps, turnNo>>
           ELSE IF ~Truthy(content)
           THEN UNCHANGED <<wire, wireTurn, pc, gen, running, outq, snaps, turnNo>>
           ELSE /\ TurnWrite(StreamStart, turnNo + 1)
                /\ turnNo' = turnNo + 1
                /\ gen' = NewGen
                /\ running' = TRUE
                /\ outq' = <<>>
                /\ snaps' = <<>>
                /\ pc' = "stream"
    /\ UNCHANGED <<conn, sent, asked, agent_service, built, lateWrites>>
    /\ UNCHANGED peer

\* Mutant of HandleMessage: stream-start is not written when the turn starts.
HandleMessageNoStart ==
    /\ Receive("message")
    /\ LET data == Head(inbox)
           content == Get(data.content, "")
       IN  IF ~agent_service.bound
           THEN /\ Reply(ErrorEvent("Agent not initialized. Send 'init' first."))
                /\ UNCHANGED <<pc, gen, running, outq, snaps, turnNo>>
           ELSE IF ~Truthy(content)
           THEN /\ Reply(ErrorEvent("Message content is required"))
                /\ UNCHANGED <<pc, gen, running, outq, snaps, turnNo>>
           ELSE /\ UNCHANGED <<wire, wireTurn>>
                /\ turnNo' = turnNo + 1
                /\ gen' = NewGen
                /\ running' = TRUE
                /\ outq' = <<>>
                /\ snaps' = <<>>
                /\ pc' = "stream"
    /\ UNCHANGED <<conn, sent, asked, agent_service, built, lateWrites>>
    /\ UNCHANGED peer

\* Mutant of HandleMessage: the locals of the differencer live in the service
\* and survive from one turn to the next.
HandleMessageKeepsLocals ==
    /\ Receive("message")
    /\ LET data == Head(inbox)
           content == Get(data.content, "")
       IN  IF ~agent_service.bound
           THEN /\ Reply(ErrorEvent("Agent not initialized. Send 'init' first."))
                /\ UNCHANGED <<pc, gen, running, outq, snaps, turnNo>>
           ELSE IF ~Truthy(content)
           THEN /\ Reply(ErrorEvent("Message content is required"))
                /\ UNCHANGED <<pc, gen, running, outq, snaps, turnNo>>
           ELSE /\ TurnWrite(StreamStart, turnNo + 1)
                /\ turnNo' = turnNo + 1
                /\ gen' = gen
                /\ running' = TRUE
                /\ outq' = <<>>
                /\ snaps' = <<>>
                /\ pc' = "stream"
    /\ UNCHANGED <<conn, sent, asked, agent_service, built, lateWrites>>
    /\ UNCHANGED peer

\* message_type == "message": rejected with an error, or a turn is started
\* (stream-start is written and stream_response is entered with fresh locals).
HandleMessage ==
    /\ Receive("message")
    /\ LET data == Head(inbox)
           content == Get(data.content, "")
       IN  IF ~agent_service.bound
           THEN /\ Reply(ErrorEvent("Agent not initialized. Send 'init' first."))
                /\ UNCHANGED <<pc, gen, running, outq, snaps, turnNo>>
           ELSE IF ~Truthy(content)
           THEN /\ Reply(ErrorEvent("Message content is required"))
                /\ UNCHANGED <<pc, gen, running, outq, snaps, turnNo>>
           ELSE /\ TurnWrite(StreamStart, turnNo + 1)
                /\ turnNo' = turnNo + 1
                /\ gen' = NewGen
                /\ running' = TRUE
                /\ outq' = <<>>
                /\ snaps' = <<>>
                /\ pc' = "stream"
    /\ UNCHANGED <<conn, sent, asked, agent_service, built, lateWrites>>
    /\ UNCHANGED peer

\* The generator is resumed and awaits the source.
Stepping ==
    /\ pc = "stream"
    /\ running
    /\ outq = <<>>

\* async for chunk in self.agent.astream(...): the source yields a snapshot
\* and the loop body runs on it, up to its next await of the source.
SourceYield(chunk) ==
    /\ Stepping
    /\ Len(snaps) < MaxSnapshots
    /\ snaps' = Append(snaps, chunk)
    /\ IF Raises(chunk)
       THEN /\ outq' = <<ErrorEvent("list index out of range")>>
            /\ running' = FALSE
            /\ gen' = gen
       ELSE /\ outq' = Differencer(gen, chunk).ev
            /\ gen' = Differencer(gen, chunk).g
            /\ running' = TRUE
    /\ UNCHANGED <<conn, inbox, sent, asked, pc, agent_service, built, wire, wireTurn,
                   turnNo, lateWrites>>
    /\ UNCHANGED peer

\* The source is exhausted: "Send completion event with full content".
SourceFinish ==
    /\ Stepping
    /\ outq' = <<CompleteEvent(gen.last_ai_content)>>
    /\ running' = FALSE
    /\ UNCHANGED <<conn, inbox, sent, asked, pc, agent_service, built, gen, snaps, wire,
                   wireTurn, turnNo, lateWrites>>
    /\ UNCHANGED peer

\* Mutant of SourceRaise: the error is reported from inside the loop, which
\* goes on.
SourceRaiseAndGoOn ==
    /\ Stepping
    /\ outq' = <<ErrorEvent("upstream")>>
    /\ running' = TRUE
    /\ UNCHANGED <<conn, inbox, sent, asked, pc, agent_service, built, gen, snaps, wire,
                   wireTurn, turnNo, lateWrites>>
    /\ UNCHANGED peer

\* Mutant of SourceRaise: the error overtakes the events of the last snapshot
\* that were not yet written.
SourceRaiseDropping ==
    /\ pc = "stream"
    /\ running
    /\ outq' = <<ErrorEvent("upstream")>>
    /\ running' = FALSE
    /\ UNCHANGED <<conn, inbox, sent, asked, pc, agent_service, built, gen, snaps, wire,
                   wireTurn, turnNo, lateWrites>>
    /\ UNCHANGED peer

\* The source raises: except Exception as e: yield {"type": "error", ...}
SourceRaise ==
    /\ Stepping
    /\ outq' = <<ErrorEvent("upstream")>>
    /\ running' = FALSE
    /\ UNCHANGED <<conn, inbox, sent, asked, pc, agent_service, built, gen, snaps, wire,
                   wireTurn, turnNo, lateWrites>>
    /\ UNCHANGED peer

\* Mutant of WriteEvent: the async for is left after the first event written.
WriteEventAndLeave ==
    /\ pc = "stream"
    /\ outq # <<>>
    /\ conn = "open"
    /\ TurnWrite(Head(outq), turnNo)
    /\ outq' = Tail(outq)
    /\ pc' = "recv"
    /\ UNCHANGED <<conn, inbox, sent, asked, agent_service, built, gen, running, snaps,
                   turnNo, lateWrites>>
    /\ UNCHANGED peer

\* Mutant of WriteEvent: after the error event of a turn the endpoint leaves
\* the read loop.
WriteEventThenLeave ==
    /\ pc = "stream"
    /\ outq # <<>>
    /\ conn = "open"
    /\ TurnWrite(Head(outq), turnNo)
    /\ outq' = Tail(outq)
    /\ pc' = IF ~running /\ Tail(outq) = <<>>
             THEN (IF Head(outq).type = "error" THEN "done" ELSE "recv")
             ELSE "stream"
    /\ UNCHANGED <<conn, inbox, sent, asked, agent_service, built, gen, running, snaps,
                   turnNo, lateWrites>>
    /\ UNCHANGED peer

\* await websocket.send_json(chunk) succeeds; after the generator's last
\* event the async for ends and the endpoint awaits the next frame.
WriteEvent ==
    /\ pc = "stream"
    /\ outq # <<>>
    /\ conn = "open"
    /\ TurnWrite(Head(outq), turnNo)
    /\ outq' = Tail(outq)
    /\ pc' = IF ~running /\ Tail(outq) = <<>> THEN "recv" ELSE "stream"
    /\ UNCHANGED <<conn, inbox, sent, asked, agent_service, built, gen, running, snaps,
                   turnNo, lateWrites>>
    /\ UNCHANGED peer

\* await websocket.send_json(chunk) raises because the client left.  The
\* handler of the turn tries to send an error, which raises again and leaves
\* the loop; the outer handler tries once more when the exception is not a
\* WebSocketDisconnect (retries = 1 or 2), then the socket is closed.
WriteFail(retries) ==
    /\ pc = "stream"
    /\ outq # <<>>
    /\ conn = "closed"
    /\ lateWrites' = lateWrites + retries
    /\ outq' = <<>>
    /\ running' = FALSE
    /\ pc' = "done"
    /\ UNCHANGED <<conn, inbox, sent, asked, agent_service, built, gen, snaps, wire,
                   wireTurn, turnNo>>
    /\ UNCHANGED peer

\* await websocket.receive_json() finds the client gone: the loop is left
\* (frames still in the transport can no longer be answered), finally: close.
ReceiveDisconnect ==
    /\ pc = "recv"
    /\ conn = "closed"
    /\ pc' = "done"
    /\ inbox' = <<>>
    /\ UNCHANGED <<conn, sent, asked, agent_service, built, wire, wireTurn, lateWrites>>
    /\ UNCHANGED turnVars
    /\ UNCHANGED peer

\* Mutant of ChangeProject: a new service is constructed for the new path,
\* with the default mode.
ChangeProjectResetsMode(svc, new_project_path, ok, serial) ==
    IF ok THEN NewService(new_project_path, "fiction", serial)
    ELSE [svc EXCEPT !.project_path = Resolve(new_project_path)]

\* Mutant of ChangeProject: the live agent is pointed at the new path instead
\* of being replaced by a new agent.
ChangeProjectInPlace(svc, new_project_path, ok, serial) ==
    LET moved == [svc EXCEPT !.project_path = Resolve(new_project_path)]
    IN  IF ok THEN [moved EXCEPT !.agent.project_path = moved.project_path] ELSE moved

\* agent_service.change_project(new_project_path): the path is assigned, then
\* the agent is rebuilt; ok: the agent could be constructed.
ChangeProject(svc, new_project_path, ok, serial) ==
    LET moved == [svc EXCEPT !.project_path = Resolve(new_project_path)]
    IN  IF ok THEN InitializeAgent(moved, serial) ELSE moved

\* message_type == "change_project"
HandleChangeProject(ok) ==
    /\ Receive("change_project")
    /\ LET new_project_path == Head(inbox).project_path
       IN  IF ~agent_service.bound
           THEN /\ Reply(ErrorEvent("Agent not initialized"))
                /\ UNCHANGED <<agent_service, built>>
           ELSE IF ~Truthy(new_project_path)
           THEN /\ Reply(ErrorEvent("project_path is required"))
                /\ UNCHANGED <<agent_service, built>>
           ELSE /\ agent_service' = ChangeProject(agent_service, new_project_path, ok, built + 1)
                /\ built' = IF ok THEN built + 1 ELSE built
                /\ IF ok
                   THEN Reply([type |-> "project_changed", project_path |-> new_project_path])
                   ELSE Reply(ErrorEvent("Failed to change project"))
    /\ UNCHANGED <<conn, sent, asked, pc, lateWrites>>
    /\ UNCHANGED turnVars
    /\ UNCHANGED peer

\* Mutant of ValidMode: any mode the client names is accepted.
ValidModeLax(new_mode) == new_mode # Absent

\* if new_mode not in available_modes: raise ValueError
ValidMode(new_mode) == new_mode \in AvailableModes

\* agent_service.change_mode(new_mode), for a valid mode: the mode is
\* assigned, then the agent is rebuilt.
ChangeMode(svc, new_mode, ok, serial) ==
    LET switched == [svc EXCEPT !.author_mode = new_mode]
    IN  IF ok THEN InitializeAgent(switched, serial) ELSE switched

\* message_type == "change_mode"
HandleChangeMode(ok) ==
    /\ Receive("change_mode")
    /\ LET new_mode == Head(inbox).mode
       IN  IF ~agent_service.bound
           THEN /\ Reply(ErrorEvent("Agent not initialized"))
                /\ UNCHANGED <<agent_service, built>>
           ELSE IF ~Truthy(new_mode)
           THEN /\ Reply(ErrorEvent("mode is required"))
                /\ UNCHANGED <<agent_service, built>>
           ELSE IF ~ValidMode(new_mode)
           THEN /\ Reply(ErrorEvent("Invalid mode"))
                /\ UNCHANGED <<agent_service, built>>
           ELSE /\ agent_service' = ChangeMode(agent_service, new_mode, ok, built + 1)
                /\ built' = IF ok THEN built + 1 ELSE built
                /\ IF ok
                   THEN Reply([type |-> "mode_changed", mode |-> new_mode])
                   ELSE Reply(ErrorEvent("Failed to change mode"))
    /\ UNCHANGED <<conn, sent, asked, pc, lateWrites>>
    /\ UNCHANGED turnVars
    /\ UNCHANGED peer

\* Mutant of HandleGetMode: the mode is reported without the check that an
\* agent service exists.
HandleGetModeUnguarded ==
    /\ Receive("get_mode")
    /\ Reply([type |-> "current_mode", mode |-> agent_service.author_mode])
    /\ UNCHANGED <<conn, sent, asked, pc, agent_service, built, lateWrites>>
    /\ UNCHANGED turnVars
    /\ UNCHANGED peer

\* Mutant of HandleGetMode: the default mode is reported instead of the mode
\* of the agent service.
HandleGetModeDefault ==
    /\ Receive("get_mode")
    /\ IF ~agent_service.bound
       THEN Reply(ErrorEvent("Agent not initialized"))
       ELSE Reply([type |-> "current_mode", mode |-> "fiction"])
    /\ UNCHANGED <<conn, sent, asked, pc, agent_service, built, lateWrites>>
    /\ UNCHANGED turnVars
    /\ UNCHANGED peer

\* message_type == "get_mode"
HandleGetMode ==
    /\ Receive("get_mode")
    /\ IF ~agent_service.bound
       THEN Reply(ErrorEvent("Agent not initialized"))
       ELSE Reply([type |-> "current_mode", mode |-> agent_service.author_mode])
    /\ UNCHANGED <<conn, sent, asked, pc, agent_service, built, lateWrites>>
    /\ UNCHANGED turnVars
    /\ UNCHANGED peer

KnownTypes == {"init", "message", "change_project", "change_mode", "get_mode"}

\* Mutant of HandleUnknown: a frame of unknown type is dropped without answer.
HandleUnknownSilent ==
    /\ pc = "recv"
    /\ conn = "open"
    /\ inbox # <<>>
    /\ Head(inbox).type \notin KnownTypes
    /\ inbox' = Tail(inbox)
    /\ UNCHANGED <<conn, sent, asked, pc, agent_service, built, wire, wireTurn, lateWrites>>
    /\ UNCHANGED turnVars
    /\ UNCHANGED peer

\* else: "Unknown message type"
HandleUnknown ==
    /\ pc = "recv"
    /\ conn = "open"
    /\ inbox # <<>>
    /\ Head(inbox).type \notin KnownTypes
    /\ inbox' = Tail(inbox)
    /\ Reply(ErrorEvent("Unknown message type"))
    /\ UNCHANGED <<conn, sent, asked, pc, agent_service, built, lateWrites>>
    /\ UNCHANGED turnVars
    /\ UNCHANGED peer

\* ----------------------------------------------------------- specifications
\* The whole session: any frames, a small set of snapshots.
Next ==
    \/ \E f \in Frames : ClientSend(f)
    \/ ClientDisconnect
    \/ \E ok \in BOOLEAN : HandleInit(ok)
    \/ HandleMessage
    \/ \E ok \in BOOLEAN : HandleChangeProject(ok)
    \/ \E ok \in BOOLEAN : HandleChangeMode(ok)
    \/ HandleGetMode
    \/ HandleUnknown
    \/ \E chunk \in SessionSnaps : SourceYield(chunk)
    \/ SourceFinish
    \/ SourceRaise
    \/ WriteEvent
    \/ \E retries \in {1, 2} : WriteFail(retries)
    \/ ReceiveDisconnect

Spec == Init /\ [][Next]_vars

\* One turn of an initialised session: a message frame waits in the
\* transport, and the source may yield any snapshot of Snapshots.
InitTurn ==
    /\ peer = Accepted(2)
    /\ conn = "open"
    /\ inbox = <<Frame("message", Absent, Absent, "hi", Absent)>>
    /\ sent = MaxFrames
    /\ asked = 1
    /\ pc = "recv"
    /\ agent_service = NewService("/p1/.", "fiction", 1)
    /\ built = 1
    /\ gen = NewGen
    /\ running = FALSE
    /\ outq = <<>>
    /\ snaps = <<>>
    /\ wire = <<[type |-> "initialized", project_path |-> "/p1/.", author_mode |-> "fiction"]>>
    /\ wireTurn = <<0>>
    /\ turnNo = 0
    /\ lateWrites = 0

NextTurn ==
    \/ ClientDisconnect
    \/ HandleMessage
    \/ \E chunk \in Snapshots : SourceYield(chunk)
    \/ SourceFinish
    \/ SourceRaise
    \/ WriteEvent
    \/ \E retries \in {1, 2} : WriteFail(retries)
    \/ ReceiveDisconnect

SpecTurn == InitTurn /\ [][NextTurn]_vars

\* The endpoint coroutine is scheduled whenever it can run, and the source
\* does not make the generator wait for ever: it yields, finishes or raises.
ServerStep ==
    \/ \E ok \in BOOLEAN : HandleInit(ok)
    \/ HandleMessage
    \/ \E ok \in BOOLEAN : HandleChangeProject(ok)
    \/ \E ok \in BOOLEAN : HandleChangeMode(ok)
    \/ HandleGetMode
    \/ HandleUnknown
    \/ \E chunk \in SessionSnaps : SourceYield(chunk)
    \/ SourceFinish
    \/ SourceRaise
    \/ WriteEvent
    \/ \E retries \in {1, 2} : WriteFail(retries)
    \/ ReceiveDisconnect

FairSpec == Init /\ [][Next]_vars /\ WF_vars(ServerStep)

\* Two connections.  Each runs websocket_endpoint as a coroutine of its own,
\* with its own locals; the event loop runs one coroutine at a time and may
\* switch from one to the other at every await.  The variables hold the
\* locals of the coroutine that is running and peer those of the other one;
\* built, the number of agents constructed by the process, belongs to both.
Running ==
    [id |-> 3 - peer.id, conn |-> conn, inbox |-> inbox, sent |-> sent, asked |-> asked,
     pc |-> pc, agent_service |-> agent_service, gen |-> gen, running |-> running,
     outq |-> outq, snaps |-> snaps, wire |-> wire, wireTurn |-> wireTurn,
     turnNo |-> turnNo, lateWrites |-> lateWrites]

\* The event loop suspends the running coroutine and resumes the other one.
Switch ==
    /\ peer' = Running
    /\ conn' = peer.conn
    /\ inbox' = peer.inbox
    /\ sent' = peer.sent
    /\ asked' = peer.asked
    /\ pc' = peer.pc
    /\ agent_service' = peer.agent_service
    /\ gen' = peer.gen
    /\ running' = peer.running
    /\ outq' = peer.outq
    /\ snaps' = peer.snaps
    /\ wire' = peer.wire
    /\ wireTurn' = peer.wireTurn
    /\ turnNo' = peer.turnNo
    /\ lateWrites' = peer.lateWrites
    /\ UNCHANGED built

\* The frames and the snapshot studied with two connections.
FramesTwo ==
    { Frame("init", "/p1/.", Absent, Absent, Absent),
      Frame("message", Absent, Absent, "hi", Absent),
      Frame("change_mode", Absent, Absent, Absent, "non-fiction"),
      Frame("change_project", "/p2", Absent, Absent, Absent) }

SnapsTwo == {Chunk(<<HumanMsg, AIMsg(<<"a">>, <<>>)>>, {"todos"}, <<1>>, <<>>)}

NextTwo ==
    \/ \E f \in FramesTwo : sent < MaxFramesTwo /\ ClientSend(f)
    \/ \E ok \in BOOLEAN : HandleInit(ok)
    \/ HandleMessage
    \/ \E ok \in BOOLEAN : HandleChangeProject(ok)
    \/ \E ok \in BOOLEAN : HandleChangeMode(ok)
    \/ \E chunk \in SnapsTwo : SourceYield(chunk)
    \/ SourceFinish
    \/ SourceRaise
    \/ WriteEvent
    \/ Switch

SpecTwo == Init /\ [][NextTwo]_vars


\* ------------------------------------------------------------ observations
\* The events the generator of the current turn has yielded so far: those
\* written to the client and those still waiting to be written.
RECURSIVE TurnWire(_, _)
TurnWire(k, n) ==
    IF n = 0 THEN <<>>
    ELSE TurnWire(k, n - 1) \o (IF wireTurn[n] = k THEN <<wire[n]>> ELSE <<>>)

\* The events of turn k on the wire, in order.
Written(k) == TurnWire(k, Len(wire))

Emitted == Written(turnNo) \o outq

\* The turn whose events Emitted holds is under way or has ended normally.
TurnSeen == turnNo >= 1 /\ pc # "done"

IsTerminal(e) == e.type \in {"complete", "error"}

\* The number of terminal events turn k has written.
Terminals(k) ==
    Cardinality({i \in 1..Len(wire) : wireTurn[i] = k /\ IsTerminal(wire[i])})

\* The terminal events of turn k are followed by no event of turn k.
TerminalLast(k) ==
    \A i \in 1..Len(wire) :
        (wireTurn[i] = k /\ IsTerminal(wire[i]))
            => \A j \in (i + 1)..Len(wire) : wireTurn[j] # k

\* The assistant text a snapshot shows: that of its last message when this is
\* an AIMessage; other snapshots show no text of their own.
ShowsText(chunk) ==
    /\ chunk.messages # <<>>
    /\ chunk.messages[Len(chunk.messages)].kind = "ai"

TextOf(chunk) ==
    LET last_message == chunk.messages[Len(chunk.messages)]
    IN  IF IsStr(last_message.content) THEN last_message.content ELSE <<>>

RECURSIVE Texts(_)
Texts(chunks) ==
    IF chunks = <<>> THEN <<>>
    ELSE (IF ShowsText(Head(chunks)) THEN <<TextOf(Head(chunks))>> ELSE <<>>)
         \o Texts(Tail(chunks))

AppendOnly(texts) == \A i \in 2..Len(texts) : StartsWith(texts[i], texts[i - 1])

FinalText(texts) == IF texts = <<>> THEN <<>> ELSE texts[Len(texts)]

RECURSIVE ConcatDeltas(_)
ConcatDeltas(events) ==
    IF events = <<>> THEN <<>>
    ELSE (IF Head(events).type = "stream-chunk" THEN Head(events).content ELSE <<>>)
         \o ConcatDeltas(Tail(events))

\* ------------------------------------------------------------------- claims
\* C1: within one turn whose snapshots have append-only text, the deltas of
\* the stream-chunk events emitted so far, concatenated in emission order,
\* are exactly the text of the latest snapshot.
C1_DeltaConcatenation ==
    (TurnSeen /\ AppendOnly(Texts(snaps)))
        => ConcatDeltas(Emitted) = FinalText(Texts(snaps))

\* Two snapshots "a", "ab" were streamed as the deltas "a", "b" and the turn
\* completed.
C1_Witness ==
    /\ pc = "recv"
    /\ Texts(snaps) = << <<"a">>, <<"a", "b">> >>
    /\ Len(Written(turnNo)) = 4
    /\ Written(turnNo)[2].content = <<"a">>
    /\ Written(turnNo)[3].content = <<"b">>
    /\ Written(turnNo)[4].type = "complete"


\* Turn k is over: a later turn has started, or the endpoint has left the
\* async for of the latest turn.
TurnOver(k) == k < turnNo \/ pc # "stream"

Last(events) == events[Len(events)]

\* C2 as stated: every turn that is over has written exactly one terminal
\* event (complete or error), whatever happened while events were written.
C2_Original == \A k \in 1..turnNo : TurnOver(k) => Terminals(k) = 1

\* C2, amended: no turn writes more than one terminal event and the terminal
\* event is the last event of its turn; a turn that is over has written
\* exactly one unless a write of that turn failed because the client had
\* left, and such a turn has written none.
C2_TerminalUniqueness ==
    /\ \A k \in 1..turnNo :
        /\ Terminals(k) <= 1
        /\ TerminalLast(k)
        /\ TurnOver(k) => (Terminals(k) = 1 \/ (k = turnNo /\ lateWrites > 0))
    /\ lateWrites > 0 => (conn = "closed" /\ pc = "done" /\ Terminals(turnNo) = 0)

\* A turn that streamed at least one event ended with the error of a source
\* that raised, and the endpoint awaits the next frame.
C2_Witness ==
    /\ pc = "recv"
    /\ turnNo = 1
    /\ Len(Written(1)) >= 3
    /\ Last(Written(1)) = ErrorEvent("upstream")
    /\ Terminals(1) = 1

\* Events that answer a "message" frame: the terminal event of a turn, or the
\* error that rejects the frame before a turn starts.
Answers ==
    Cardinality({i \in 1..Len(wire) :
        \/ wireTurn[i] > 0 /\ IsTerminal(wire[i])
        \/ wire[i] = ErrorEvent("Agent not initialized. Send 'init' first.")
        \/ wire[i] = ErrorEvent("Message content is required")})

\* C3 as stated: every message frame the client sent is eventually answered
\* by a terminal event written to the client.
C3_Original == \A n \in 1..MaxFrames : (asked >= n) ~> (Answers >= n)

\* C3, amended: every message frame the client sent is eventually answered by
\* a terminal event, or the client has disconnected.
C3_EventuallyAnswered ==
    \A n \in 1..MaxFrames : (asked >= n) ~> (Answers >= n \/ conn = "closed")

\* Two messages were sent and both were answered while the client stayed.
C3_Witness == asked = 2 /\ Answers = 2 /\ conn = "open" /\ turnNo >= 1

IsCompleted(id, e) == e.type = "tool-result" /\ e.id = id
IsPending(id, e) == e.type = "tool-call" /\ e.id = id

\* C4 as stated: within one turn at most one tool-result (completed) event is
\* emitted per tool-call id.
C4_AtMostOneCompleted ==
    TurnSeen =>
        \A id \in ToolIds :
            Cardinality({i \in 1..Len(Emitted) : IsCompleted(id, Emitted[i])}) <= 1

\* C5 as stated: within one turn a tool-result (completed) event for an id
\* comes only after a tool-call (pending) event for the same id.
C5_CompletedAfterPending ==
    TurnSeen =>
        \A i \in 1..Len(Emitted) :
            Emitted[i].type = "tool-result"
                => \E j \in 1..(i - 1) : IsPending(Emitted[i].id, Emitted[j])

\* C6: within one turn no tool-call id is reported pending more than once.
C6_AtMostOnePending ==
    TurnSeen =>
        \A id \in ToolIds :
            Cardinality({i \in 1..Len(Emitted) : IsPending(id, Emitted[i])}) <= 1

CallsTool(id, chunk) ==
    /\ ShowsText(chunk)
    /\ LET calls == chunk.messages[Len(chunk.messages)].tool_calls
       IN  \E i \in 1..Len(calls) : calls[i].id = id

\* Two snapshots of a finished turn both carried tool call 1, and one pending
\* event for it was written.
C6_Witness ==
    /\ pc = "recv"
    /\ Len(snaps) = 2
    /\ CallsTool(1, snaps[1])
    /\ CallsTool(1, snaps[2])
    /\ snaps[1] # snaps[2]
    /\ Cardinality({i \in 1..Len(Written(turnNo)) : IsPending(1, Written(turnNo)[i])}) = 1


\* C7 as stated: when the text of a snapshot does not start with the text
\* last recorded, a stream-chunk whose delta and fullContent are the whole
\* text of the snapshot is emitted ("ab" then "a" gives delta "a").
C7_FailSafe ==
    [][ (/\ Len(snaps') = Len(snaps) + 1
         /\ ShowsText(Last(snaps'))
         /\ TextOf(Last(snaps')) # <<>>
         /\ ~StartsWith(TextOf(Last(snaps')), gen.last_ai_content))
        => (/\ outq' # <<>>
            /\ Head(outq') = StreamChunk(TextOf(Last(snaps')), TextOf(Last(snaps')))) ]_vars

\* The endpoint takes the frame at the head of the transport.
Takes ==
    /\ conn = "open"
    /\ inbox # <<>>
    /\ inbox' = Tail(inbox)

\* C8 as stated: a message sent while a turn was streaming is answered with
\* the error "session busy" and starts no turn.
C8_Original ==
    [][ (Takes /\ Head(inbox).type = "message" /\ Head(inbox).busy)
        => (wire' = Append(wire, ErrorEvent("session busy")) /\ turnNo' = turnNo) ]_vars

\* C8, amended: a frame sent while a turn is streaming is held by the
\* transport and changes neither the locals of the differencer nor the events
\* of the turn in progress; it is not read before that turn is over, and a
\* message with content is then handled like any other: it starts the next
\* turn with fresh locals.
C8_QueuedNotRejected ==
    [][ /\ (pc = "stream" /\ inbox' # inbox)
            => (/\ \E f \in Frames : inbox' = Append(inbox, [f EXCEPT !.busy = TRUE])
                /\ UNCHANGED <<pc, gen, running, outq, snaps, wire, wireTurn, turnNo>>)
        /\ (Takes /\ Head(inbox).type = "message" /\ Head(inbox).busy
                  /\ Truthy(Head(inbox).content))
            => (/\ Terminals(turnNo) = 1
                /\ turnNo' = turnNo + 1
                /\ wire' = Append(wire, StreamStart)
                /\ gen' = NewGen
                /\ pc' = "stream") ]_vars

\* A message sent during the first turn is still waiting, unread, when that
\* turn has written its terminal event.
C8_Witness ==
    /\ pc = "recv"
    /\ conn = "open"
    /\ turnNo = 1
    /\ Terminals(1) = 1
    /\ Len(Written(1)) >= 3
    /\ inbox # <<>>
    /\ Head(inbox).type = "message"
    /\ Head(inbox).busy
    /\ Truthy(Head(inbox).content)

\* A step keeps the events of the turns apart: what is already on the wire
\* stays, and an event written for a turn belongs to the turn started last
\* and either opens that turn's run on the wire or directly follows an event
\* of the same turn.
NonInterleaved ==
    /\ Len(wire') >= Len(wire)
    /\ turnNo' >= turnNo
    /\ \A i \in 1..Len(wire) : wire'[i] = wire[i] /\ wireTurn'[i] = wireTurn[i]
    /\ \A j \in (Len(wire) + 1)..Len(wire') :
           wireTurn'[j] > 0 =>
               /\ wireTurn'[j] = turnNo'
               /\ \/ \A i \in 1..(j - 1) : wireTurn'[i] # wireTurn'[j]
                  \/ wireTurn'[j - 1] = wireTurn'[j]

\* C9: the endpoint takes the next frame only when it is not inside a turn
\* and every turn started so far has written its terminal event; the events
\* of different turns are never interleaved on the wire.
C9_Sequential ==
    [][ /\ Takes => (pc = "recv" /\ \A k \in 1..turnNo : Terminals(k) = 1)
        /\ NonInterleaved ]_vars

\* Two turns ran one after the other, each with events of its own.
C9_Witness ==
    /\ turnNo = 2
    /\ pc = "recv"
    /\ Terminals(1) = 1
    /\ Terminals(2) = 1
    /\ Len(Written(1)) >= 3
    /\ Len(Written(2)) >= 3

\* C10: while no agent service exists, a frame other than init is answered
\* by exactly one error event, starts no turn and leaves the session as it
\* was: no agent service, no agent built.
C10_UninitializedRejects ==
    [][ (Takes /\ ~agent_service.bound /\ Head(inbox).type # "init")
        => (/\ wire' = Append(wire, Last(wire'))
            /\ Last(wire').type = "error"
            /\ wireTurn' = Append(wireTurn, 0)
            /\ pc' = "recv"
            /\ agent_service' = NoService
            /\ UNCHANGED <<built, turnNo, gen, running, outq, snaps>>) ]_vars

\* Before any init, a message, a change_mode and a get_mode were each
\* answered by one error.
C10_Witness ==
    /\ ~agent_service.bound
    /\ turnNo = 0
    /\ built = 0
    /\ wire = << ErrorEvent("Agent not initialized. Send 'init' first."),
                 ErrorEvent("Agent not initialized"),
                 ErrorEvent("Agent not initialized") >>
    /\ sent = 3
    /\ inbox = <<>>

\* C11 as stated: an init frame taken when an agent service already exists is
\* answered by one error event and leaves the service, its project path, its
\* mode and its agent as they were; no second agent is built.
C11_AlreadyInitialized ==
    [][ (Takes /\ Head(inbox).type = "init" /\ agent_service.bound)
        => (/\ wire' = Append(wire, Last(wire'))
            /\ Last(wire').type = "error"
            /\ agent_service' = agent_service
            /\ built' = built) ]_vars

\* C12 as stated: an init frame with a project path whose mode is none of
\* fiction, non-fiction, academic is answered by one error event; no
\* initialized event is written, no agent is built and there is still no
\* agent service.
C12_InitInvalidMode ==
    [][ (/\ Takes
         /\ Head(inbox).type = "init"
         /\ ~agent_service.bound
         /\ Truthy(Head(inbox).project_path)
         /\ Get(Head(inbox).author_mode, "fiction") \notin AvailableModes)
        => (/\ wire' = Append(wire, Last(wire'))
            /\ Last(wire').type = "error"
            /\ agent_service' = NoService
            /\ built' = built) ]_vars

\* C13: a change_mode frame naming an unrecognised mode, taken while an agent
\* service exists, is answered by one error event and nothing else: the
\* endpoint awaits the next frame, the service keeps its mode and its agent
\* is the agent it had (none was built).
C13_ChangeModeInvalid ==
    [][ (/\ Takes
         /\ Head(inbox).type = "change_mode"
         /\ agent_service.bound
         /\ Truthy(Head(inbox).mode)
         /\ Head(inbox).mode \notin AvailableModes)
        => (/\ wire' = Append(wire, Last(wire'))
            /\ Last(wire').type = "error"
            /\ wireTurn' = Append(wireTurn, 0)
            /\ pc' = "recv"
            /\ agent_service' = agent_service
            /\ built' = built
            /\ UNCHANGED <<turnNo, gen, running, outq, snaps>>) ]_vars

\* After a change to non-fiction, a change_mode to "poetry" was refused: the
\* service is still in non-fiction with the second agent built.
C13_Witness ==
    /\ wire # <<>>
    /\ Last(wire) = ErrorEvent("Invalid mode")
    /\ agent_service.bound
    /\ agent_service.author_mode = "non-fiction"
    /\ agent_service.agent.serial = 2
    /\ agent_service.agent.prompt = "non-fiction"
    /\ built = 2
    /\ pc = "recv"

\* The session state a read-only command leaves alone.
SessionUnchanged ==
    /\ agent_service' = agent_service
    /\ built' = built
    /\ pc' = pc
    /\ UNCHANGED <<turnNo, gen, running, outq, snaps>>

\* C14 as stated: a get_mode frame taken in any state of an open connection,
\* also while no agent service exists, is answered by a current_mode event
\* and changes no session state.
C14_Original ==
    [][ (Takes /\ Head(inbox).type = "get_mode")
        => (/\ wire' = Append(wire, Last(wire'))
            /\ Last(wire').type = "current_mode"
            /\ SessionUnchanged) ]_vars

\* C14, amended: a get_mode frame changes no session state; it is answered
\* by a current_mode event carrying the mode of the agent service when one
\* exists, and by one error event while none exists.
C14_GetModeReadOnly ==
    [][ (Takes /\ Head(inbox).type = "get_mode")
        => (/\ wire' = Append(wire,
                      IF agent_service.bound
                      THEN [type |-> "current_mode", mode |-> agent_service.author_mode]
                      ELSE ErrorEvent("Agent not initialized"))
            /\ wireTurn' = Append(wireTurn, 0)
            /\ SessionUnchanged) ]_vars

\* The mode was asked for before init and again after it: the first answer
\* is an error, the second the mode bound by init.
C14_Witness ==
    /\ Len(wire) = 3
    /\ wire[1] = ErrorEvent("Agent not initialized")
    /\ wire[2].type = "initialized"
    /\ wire[3] = [type |-> "current_mode", mode |-> agent_service.author_mode]
    /\ agent_service.bound
    /\ built = 1

\* C15 as stated: a change_project or change_mode frame that is answered by
\* an error is answered by exactly one, and leaves the agent service, its
\* project path, its mode and its agent as they were.
C15_NoCorruption ==
    [][ (/\ Takes
         /\ Head(inbox).type \in {"change_project", "change_mode"}
         /\ agent_service.bound
         /\ Len(wire') > Len(wire)
         /\ Last(wire').type = "error")
        => (/\ wire' = Append(wire, Last(wire'))
            /\ agent_service' = agent_service
            /\ agent_service'.agent.project_path = agent_service'.project_path
            /\ agent_service'.agent.prompt = MainAgentPrompt(agent_service'.author_mode)
            /\ built' = built
            /\ pc' = "recv") ]_vars

\* C16: a turn leaves the agent service alone; when its terminal event,
\* complete or error, has been written to an open connection the endpoint
\* awaits the next frame; and a message with content taken after a turn,
\* whatever its outcome, starts a new turn with the same agent service.
C16_TurnReturnsToReady ==
    [][ /\ pc = "stream" => (agent_service' = agent_service /\ built' = built)
        /\ (/\ conn = "open"
            /\ Len(wire') > Len(wire)
            /\ wireTurn'[Len(wire')] > 0
            /\ IsTerminal(Last(wire')))
            => pc' = "recv"
        /\ (/\ Takes
            /\ turnNo >= 1
            /\ Head(inbox).type = "message"
            /\ Truthy(Head(inbox).content)
            /\ agent_service.bound)
            => (/\ turnNo' = turnNo + 1
                /\ wire' = Append(wire, StreamStart)
                /\ gen' = NewGen
                /\ pc' = "stream"
                /\ agent_service' = agent_service
                /\ built' = built) ]_vars

\* The first turn ended with the error of the source; the second message
\* started a second turn on the agent built by init.
C16_Witness ==
    /\ turnNo = 2
    /\ pc = "stream"
    /\ Last(Written(1)) = ErrorEvent("upstream")
    /\ Written(2) = <<StreamStart>>
    /\ agent_service.bound
    /\ agent_service.agent.serial = 1
    /\ built = 1

\* The events the loop body yields for a sequence of snapshots, starting from
\* the locals g, up to the first snapshot on which it raises.
RECURSIVE Produced(_, _)
Produced(g, chunks) ==
    IF chunks = <<>> \/ Raises(Head(chunks)) THEN <<>>
    ELSE Differencer(g, Head(chunks)).ev
         \o Produced(Differencer(g, Head(chunks)).g, Tail(chunks))

\* C17: when a turn has yielded an error event, that event is the last event
\* of the turn (no complete follows, the generator has ended), every event
\* produced from the snapshots before the failure was written before it, and
\* these events are exactly what precedes it in the turn.
C17_ErrorAfterFlush ==
    TurnSeen =>
        \A i \in 1..Len(Emitted) :
            Emitted[i].type = "error"
                => /\ i = Len(Emitted)
                   /\ ~running
                   /\ Len(outq) <= 1
                   /\ SubSeq(Emitted, 1, i - 1) = <<StreamStart>> \o Produced(NewGen, snaps)

\* The source raised after two snapshots that produced events: these were
\* written, then the error, and the endpoint awaits the next frame.
C17_Witness ==
    /\ pc = "recv"
    /\ turnNo = 1
    /\ Len(snaps) = 2
    /\ Len(Produced(NewGen, <<snaps[1]>>)) >= 1
    /\ Len(Produced(NewGen, snaps)) > Len(Produced(NewGen, <<snaps[1]>>))
    /\ Written(1) = <<StreamStart>> \o Produced(NewGen, snaps) \o <<ErrorEvent("upstream")>>

\* C18 as stated: once the client has left during a turn, the source is not
\* stepped again, nothing more is written and no further write is attempted.
C18_ClosedIsQuiet ==
    [][ (pc = "stream" /\ conn = "closed")
        => (snaps' = snaps /\ wire' = wire /\ lateWrites' = lateWrites) ]_vars

\* The payload of the last event of the given type among events, or the
\* empty list when there is none.
LastData(events, type) ==
    LET idx == {i \in 1..Len(events) : events[i].type = type}
    IN  IF idx = {} THEN <<>>
        ELSE events[CHOOSE i \in idx : \A j \in idx : j <= i].data

\* The positions of the events of the given type among events.
Of(events, type) == {i \in 1..Len(events) : events[i].type = type}

\* The source has just yielded a snapshot on which the loop body ran.
Yielded == Len(snaps') = Len(snaps) + 1 /\ ~Raises(Last(snaps'))

\* C19: the loop body yields a todos event for a snapshot exactly when the
\* snapshot carries todos that differ, as lists, from the todos last emitted
\* in this turn (the empty list when none was); it then yields one, carrying
\* the todos of the snapshot.
C19_TodosDiff ==
    [][ Yielded =>
          LET chunk == Last(snaps')
          IN  IF "todos" \in chunk.keys /\ chunk.todos # LastData(Emitted, "todos")
              THEN /\ Cardinality(Of(outq', "todos")) = 1
                   /\ \A i \in Of(outq', "todos") : outq'[i] = TodosEvent(chunk.todos)
              ELSE Of(outq', "todos") = {} ]_vars

\* Todos [1, 2], the same list again, then the turn completed: one todos
\* event was written.
C19_Witness ==
    /\ pc = "recv"
    /\ Len(snaps) = 2
    /\ "todos" \in snaps[1].keys
    /\ snaps[2] = snaps[1]
    /\ snaps[1].todos = <<1, 2>>
    /\ Written(turnNo) = <<StreamStart, TodosEvent(<<1, 2>>), CompleteEvent(<<>>)>>

\* The set of names a list of file names holds.
NameSet(files) == {files[i] : i \in 1..Len(files)}

\* C20 as stated: the loop body yields a files event for a snapshot exactly
\* when the set of its file names differs from the set of file names last
\* emitted in this turn, whatever the order in which the names are listed.
C20_FilesDiffAsSet ==
    [][ Yielded =>
          LET chunk == Last(snaps')
          IN  IF /\ "files" \in chunk.keys
                 /\ NameSet(chunk.files) # NameSet(LastData(Emitted, "files"))
              THEN /\ Cardinality(Of(outq', "files")) = 1
                   /\ \A i \in Of(outq', "files") : outq'[i] = FilesEvent(chunk.files)
              ELSE Of(outq', "files") = {} ]_vars

\* C21: a change_project or change_mode frame answered by project_changed or
\* mode_changed is answered by exactly that one event, carrying the value the
\* frame named; the agent of the service is a new agent, built from the path
\* and the mode the service now records, and the endpoint awaits the next
\* frame with the service still in place.
C21_Rebuild ==
    [][ (/\ Takes
         /\ Head(inbox).type \in {"change_project", "change_mode"}
         /\ Len(wire') > Len(wire)
         /\ Last(wire').type \in {"project_changed", "mode_changed"})
        => (/\ agent_service.bound
            /\ wire' = Append(wire,
                   IF Head(inbox).type = "change_project"
                   THEN [type |-> "project_changed", project_path |-> Head(inbox).project_path]
                   ELSE [type |-> "mode_changed", mode |-> Head(inbox).mode])
            /\ agent_service'.bound
            /\ agent_service'.agent.serial # agent_service.agent.serial
            /\ agent_service'.agent.serial = built'
            /\ built' = built + 1
            /\ agent_service'.agent.project_path = agent_service'.project_path
            /\ agent_service'.agent.prompt = MainAgentPrompt(agent_service'.author_mode)
            /\ Head(inbox).type = "change_project"
                  => agent_service'.project_path = Resolve(Head(inbox).project_path)
            /\ Head(inbox).type = "change_mode"
                  => agent_service'.author_mode = Head(inbox).mode
            /\ pc' = "recv") ]_vars

\* The project was changed once after init: the second agent built serves
\* the new path.
C21_Witness ==
    /\ Len(wire) = 2
    /\ wire[2] = [type |-> "project_changed", project_path |-> "/p2"]
    /\ agent_service.project_path = "/p2"
    /\ agent_service.agent = [serial |-> 2, project_path |-> "/p2",
                              prompt |-> MainAgentPrompt(agent_service.author_mode)]
    /\ built = 2

\* C23: the complete event of a turn carries, as fullContent, the text of the
\* last snapshot of the turn that showed assistant text (the empty text when
\* none did); so when the final snapshot shows text, its text.
C23_CompleteIsFinalContent ==
    TurnSeen =>
        \A i \in 1..Len(Emitted) :
            Emitted[i].type = "complete"
                => /\ Emitted[i].fullContent = FinalText(Texts(snaps))
                   /\ (snaps # <<>> /\ ShowsText(Last(snaps)))
                         => Emitted[i].fullContent = TextOf(Last(snaps))

\* The text went from "b" to "a": the turn completed with fullContent "a".
C23_Witness ==
    /\ pc = "recv"
    /\ Texts(snaps) = << <<"b">>, <<"a">> >>
    /\ Last(Written(turnNo)) = CompleteEvent(<<"a">>)

\* The place of an event kind in the loop body of the differencer.
KindRank(type) ==
    CASE type = "stream-chunk" -> 1
      [] type = "tool-call" -> 2
      [] type = "tool-result" -> 3
      [] type = "todos" -> 4
      [] type = "files" -> 5
      [] OTHER -> 6

\* The events of a turn before its terminal event.
Body(events) ==
    IF events # <<>> /\ IsTerminal(Last(events))
    THEN SubSeq(events, 1, Len(events) - 1)
    ELSE events

\* C24: the events yielded for one snapshot come in the order stream-chunk,
\* tool-call, tool-result, todos, files; each write puts exactly the oldest
\* event not yet written on the wire; and what a turn has written and is
\* about to write is, after stream-start, the events of its snapshots in
\* source order, followed by nothing but the terminal event.
C24_OrderPreserved ==
    [][ /\ Yielded =>
              \A i \in 1..Len(outq') : \A j \in (i + 1)..Len(outq') :
                  KindRank(outq'[i].type) <= KindRank(outq'[j].type)
        /\ (pc = "stream" /\ wire' # wire)
              => (/\ outq # <<>>
                  /\ wire' = Append(wire, Head(outq))
                  /\ outq' = Tail(outq))
        /\ TurnSeen' => Body(Emitted') = <<StreamStart>> \o Produced(NewGen, snaps') ]_vars

\* One snapshot produced an event of each kind; all were written in the
\* order of the loop body, then the turn completed.
C24_Witness ==
    /\ pc = "recv"
    /\ Len(snaps) = 1
    /\ Len(Written(turnNo)) = 7
    /\ \A i \in 1..5 : KindRank(Written(turnNo)[i + 1].type) = i
    /\ Written(turnNo)[7].type = "complete"

\* The locals of the differencer after the loop body has run on a sequence
\* of snapshots, starting from the locals g, up to the first snapshot on
\* which it raises.
RECURSIVE LocalsAfter(_, _)
LocalsAfter(g, chunks) ==
    IF chunks = <<>> \/ Raises(Head(chunks)) THEN g
    ELSE LocalsAfter(Differencer(g, Head(chunks)).g, Tail(chunks))

\* C25: every turn starts with fresh locals of the differencer, whatever the
\* outcome of the turn before; within a turn the locals are those the turn's
\* own snapshots lead to from fresh locals, and the events yielded for a
\* snapshot are those the loop body produces from these locals, whatever
\* earlier turns have seen.
C25_FreshLocals ==
    [][ /\ turnNo' # turnNo
              => (turnNo' = turnNo + 1 /\ gen' = NewGen /\ snaps' = <<>> /\ outq' = <<>>)
        /\ (turnNo' >= 1 /\ pc' = "stream") => gen' = LocalsAfter(NewGen, snaps')
        /\ Yielded => outq' = Differencer(LocalsAfter(NewGen, snaps), Last(snaps')).ev ]_vars

\* Two turns saw the same snapshots and wrote the same events, text delta
\* and tool call included.
C25_Witness ==
    /\ turnNo = 2
    /\ pc = "recv"
    /\ Len(snaps) >= 1
    /\ Len(Written(1)) >= 5
    /\ Written(2) = Written(1)
    /\ Last(Written(2)).type = "complete"

\* A frame that cannot be acted upon: of unknown type, or lacking the value
\* its command needs.
Malformed(f) ==
    \/ f.type \notin KnownTypes
    \/ f.type \in {"init", "change_project"} /\ ~Truthy(f.project_path)
    \/ f.type = "change_mode" /\ ~Truthy(f.mode)
    \/ f.type = "message" /\ ~Truthy(Get(f.content, ""))

\* C26: a malformed frame is answered by exactly one error event outside any
\* turn; no turn starts, the source is not stepped, the connection stays
\* open and served, and the agent service is as it was.
C26_MalformedFrame ==
    [][ (Takes /\ Malformed(Head(inbox)))
        => (/\ Len(wire') = Len(wire) + 1
            /\ wire' = Append(wire, Last(wire'))
            /\ Last(wire').type = "error"
            /\ wireTurn' = Append(wireTurn, 0)
            /\ conn' = "open"
            /\ pc' = "recv"
            /\ SessionUnchanged) ]_vars

\* After init, a change_project without path and a frame of unknown type
\* were each answered by one error; the service is the one init built.
C26_Witness ==
    /\ Len(wire) = 3
    /\ wire[1].type = "initialized"
    /\ wire[2] = ErrorEvent("project_path is required")
    /\ wire[3] = ErrorEvent("Unknown message type")
    /\ agent_service.bound
    /\ agent_service.agent.serial = 1
    /\ built = 1
    /\ conn = "open"
    /\ pc = "recv"

\* The positions on the wire of the stream-start events.
Starts == {i \in 1..Len(wire) : wire[i].type = "stream-start"}

\* C27: a message frame starts a turn exactly when an agent service exists
\* and the frame has content, and exactly then one stream-start is written,
\* and nothing else; every turn has exactly one stream-start on the wire,
\* before every other event of the turn, and no stream-start stands outside
\* a turn.
C27_StreamStartFirst ==
    [][ /\ (Takes /\ Head(inbox).type = "message")
              => IF agent_service.bound /\ Truthy(Get(Head(inbox).content, ""))
                 THEN /\ wire' = Append(wire, StreamStart)
                      /\ turnNo' = turnNo + 1
                      /\ wireTurn' = Append(wireTurn, turnNo')
                 ELSE /\ Starts' = Starts
                      /\ turnNo' = turnNo
        /\ Cardinality(Starts') = turnNo'
        /\ \A i \in Starts' :
              /\ wireTurn'[i] > 0
              /\ \A j \in 1..(i - 1) : wireTurn'[j] # wireTurn'[i] ]_vars

\* A message without content was rejected, the next one started the only
\* turn, which wrote stream-start before its other events and its terminal
\* event.
C27_Witness ==
    /\ turnNo = 1
    /\ pc = "recv"
    /\ Len(wire) >= 6
    /\ wire[2] = ErrorEvent("Message content is required")
    /\ wire[3] = StreamStart
    /\ Starts = {3}
    /\ Terminals(1) = 1

\* C28: every stream-chunk yielded carries a delta that is not empty; a
\* snapshot whose text equals the text last recorded, or has nothing beyond
\* the length of the text last recorded, yields no stream-chunk; and in every
\* case the text recorded afterwards is the text of the snapshot.
C28_NonEmptyDelta ==
    [][ (Yielded /\ ShowsText(Last(snaps')))
        => LET current_content == TextOf(Last(snaps'))
           IN  /\ \A i \in Of(outq', "stream-chunk") : outq'[i].content # <<>>
               /\ (\/ current_content = gen.last_ai_content
                   \/ Len(current_content) <= Len(gen.last_ai_content))
                     => Of(outq', "stream-chunk") = {}
               /\ gen'.last_ai_content = current_content ]_vars

\* The text shrank from "ab" to "a": one stream-chunk was written, none for
\* the second snapshot, and the text recorded is "a".
C28_Witness ==
    /\ pc = "stream"
    /\ outq = <<>>
    /\ Texts(snaps) = << <<"a", "b">>, <<"a">> >>
    /\ Written(turnNo) = <<StreamStart, StreamChunk(<<"a", "b">>, <<"a", "b">>)>>
    /\ gen.last_ai_content = <<"a">>

\* C29: change_project leaves the mode of the service alone, change_mode
\* leaves its project path alone, get_mode leaves the service and its agent
\* alone; none of the three starts a turn or touches the locals of the
\* differencer, and only a change that succeeds builds an agent.
C29_FrameEffects ==
    [][ (Takes /\ Head(inbox).type \in {"change_project", "change_mode", "get_mode"})
        => (/\ agent_service'.bound = agent_service.bound
            /\ Head(inbox).type = "change_project"
                  => agent_service'.author_mode = agent_service.author_mode
            /\ Head(inbox).type = "change_mode"
                  => agent_service'.project_path = agent_service.project_path
            /\ Head(inbox).type = "get_mode"
                  => (agent_service' = agent_service /\ built' = built)
            /\ agent_service'.agent # agent_service.agent
                  => /\ built' = built + 1
                     /\ Last(wire').type \in {"project_changed", "mode_changed"}
            /\ pc' = "recv"
            /\ UNCHANGED <<turnNo, gen, running, outq, snaps>>) ]_vars

\* The mode was changed, then the project: the service has the new path and
\* still the mode chosen before.
C29_Witness ==
    /\ Len(wire) = 3
    /\ wire[2] = [type |-> "mode_changed", mode |-> "non-fiction"]
    /\ wire[3] = [type |-> "project_changed", project_path |-> "/p2"]
    /\ agent_service.author_mode = "non-fiction"
    /\ agent_service.project_path = "/p2"
    /\ agent_service.agent.prompt = "non-fiction"

\* The mode granted last: that of the last initialized or mode_changed event
\* among events, "" when there is none.
GrantedMode(events) ==
    LET idx == {i \in 1..Len(events) : events[i].type \in {"initialized", "mode_changed"}}
        last == events[CHOOSE i \in idx : \A j \in idx : j <= i]
    IN  IF idx = {} THEN ""
        ELSE IF last.type = "initialized" THEN last.author_mode ELSE last.mode

\* C30 as stated: get_mode, taken while an agent service exists, reports the
\* mode of the last init or change_mode that was answered by initialized or
\* mode_changed; a change_mode answered by an error does not change it.
C30_ReportedMode ==
    [][ (Takes /\ Head(inbox).type = "get_mode" /\ agent_service.bound)
        => wire' = Append(wire, [type |-> "current_mode", mode |-> GrantedMode(wire)]) ]_vars

\* C22: a step of the coroutine of one connection leaves the session of the
\* other connection as it was (its place in the endpoint, its agent service,
\* the locals of its differencer, the events written to it); a switch of
\* coroutines hands both sessions over unchanged; and the agent services of
\* the two connections never hold the same agent.
C22_Independent ==
    [][ /\ peer'.id = peer.id => peer' = peer
        /\ peer'.id # peer.id
              => (/\ peer' = Running
                  /\ Running' = peer
                  /\ built' = built)
        /\ (agent_service'.bound /\ peer'.agent_service.bound)
              => agent_service'.agent.serial # peer'.agent_service.agent.serial ]_vars

\* Both connections were initialised for the same project and each ran a
\* turn of its own to its end, one after the other's stream-start.
C22_Witness ==
    /\ agent_service.bound
    /\ peer.agent_service.bound
    /\ agent_service.project_path = peer.agent_service.project_path
    /\ agent_service.agent.serial # peer.agent_service.agent.serial
    /\ turnNo = 1
    /\ peer.turnNo = 1
    /\ pc = "recv"
    /\ peer.pc = "recv"
    /\ Len(wire) >= 5
    /\ wire = peer.wire

====
